---------------------------- MODULE Spec2Model ----------------------------
(***************************************************************************)
(* Flame Boss device-state coordination engine                             *)
(*   custom_components/flameboss/coordinator.py  FlameBossCoordinator      *)
(*   custom_components/flameboss/api.py          FlameBossMqttClient       *)
(*                                                                         *)
(* Time is the reading of time.monotonic(), quantised to 1/TicksPerSec of  *)
(* a second.  Everything runs on one asyncio event loop: a handler runs    *)
(* atomically up to its next await, so each action below is one such run.  *)
(***************************************************************************)
EXTENDS Integers, Sequences, FiniteSets, TLC

\* ------------------------------------------------------------------ bounds
\* Resolution of the model clock: ticks per second of time.monotonic().
TicksPerSec == 2
\* Horizon (seconds) of the debounce / discovery runs.
MaxSecCoord == 3
\* Horizon (seconds) of the liveness runs.
MaxSecLive == 21
\* Horizon (seconds) of the command runs.
MaxSecCmd == 5
\* Horizon (seconds) of the client runs.
MaxSecClient == 6
\* Bus messages received per run: debounce / discovery, liveness, client runs.
MaxMsgs == 3
MaxMsgsLive == 3
MaxMsgsClient == 2
\* setPitSetpoint calls per run.
MaxCalls == 3
\* Receive tasks ever created per run.
MaxTasks == 2
\* Largest reading, in tenths of a degree Celsius either side of zero, of the
\* conversion runs.
MaxTenthC == 30

\* Device ids seen on the bus.
DeviceIds == {1, 2}

\* --------------------------------------------------------- program constants
\* async_call_later(self.hass, 1.0, _do)
REFRESH_DELAY == 1
\* if now - last < 2.0
SETPOINT_MIN_INTERVAL == 2
\* is_online = (now - last) <= 15.0
OFFLINE_AFTER == 15
\* timedelta(seconds=5)
SWEEP_INTERVAL == 5
\* await asyncio.sleep(5)
RECONNECT_DELAY == 5
\* Flame Boss "not present" sentinel
SENTINEL == -32767

Sec(n) == n * TicksPerSec

\* ------------------------------------------------------------ Python values
\* A Python value is a tagged record, so that values of different Python
\* types can be compared.  Floats are kept exactly, in hundredths.
None == [t |-> "none", v |-> 0]
PyInt(n) == [t |-> "int", v |-> n]
PyFloat(h) == [t |-> "float", v |-> h]
PyBool(b) == [t |-> "bool", v |-> IF b THEN 1 ELSE 0]
PyStr(n) == [t |-> "str", v |-> n]

\* dict.get(k) / dict.get(k, default)
Get(dict, k) == IF k \in DOMAIN dict THEN dict[k] ELSE None
GetOr(dict, k, default) == IF k \in DOMAIN dict THEN dict[k] ELSE default
\* dict[k] = val on a copy of dict
Put(dict, k, val) == [x \in (DOMAIN dict) \cup {k} |-> IF x = k THEN val ELSE dict[x]]
EmptyDict == [x \in {} |-> None]

\* str(device_id): the key of the state map
StrKey(did) == <<"str", did>>

\* ------------------------------------------------------------ unit conversion
\* mutant: the sentinel is converted like any other reading
TenthCToFNoSentinel(val) ==
    IF val.t = "none" THEN None
    ELSE IF val.t = "str" THEN None
    ELSE PyFloat(18 * val.v + 3200)

\* _tenth_c_to_f: None and the sentinel give None; a value that int() rejects
\* gives None; otherwise (val / 10) * 9 / 5 + 32, here in hundredths of a degree.
_tenth_c_to_f(val) ==
    IF val.t = "none" THEN None
    ELSE IF val.t = "str" THEN None
    ELSE IF val.v = SENTINEL THEN None
    ELSE PyFloat(18 * val.v + 3200)

\* round(): nearest integer, ties to even, of the rational num / den (den > 0)
RoundHalfEven(num, den) ==
    LET q == num \div den
        r == num % den
    IN  IF 2 * r < den THEN q
        ELSE IF 2 * r > den THEN q + 1
        ELSE IF q % 2 = 0 THEN q ELSE q + 1

\* mutant: the conversion gives whole degrees Celsius
FToTenthCWhole(fh) == RoundHalfEven((fh - 3200) * 5, 900)

\* mutant: the conversion clamps the setpoint to 100..450 first
FToTenthCClamped(fh) ==
    LET c == IF fh < 10000 THEN 10000 ELSE IF fh > 45000 THEN 45000 ELSE fh
    IN  RoundHalfEven((c - 3200) * 50, 900)

\* _f_to_tenth_c: int(round((f - 32) * 5 / 9 * 10)), f in hundredths of a degree
_f_to_tenth_c(fh) == RoundHalfEven((fh - 3200) * 50, 900)

\* ------------------------------------------------------------------ payloads
\* A decoded JSON object.  name is the discriminator ("" when the key is
\* missing); temps is the list under "temps" (<<>> when missing or empty).
MkPayload(name, temps, set_temp, blower, cook_id, sec, hw_id, app) ==
    [name |-> name, temps |-> temps, set_temp |-> set_temp, blower |-> blower,
     cook_id |-> cook_id, sec |-> sec, hw_id |-> hw_id, app |-> app]

TempsMsgA == MkPayload("temps", <<250, 800, SENTINEL, SENTINEL>>, PyInt(260), PyInt(4500),
                       PyInt(7), PyInt(60), None, None)
TempsMsgB == MkPayload("temps", <<300>>, None, None, None, None, None, None)
VersionsMsg == MkPayload("versions", <<>>, None, None, None, None, PyInt(3), PyStr(1))
OpenMsg == MkPayload("open", <<>>, None, None, None, None, None, None)
NoNameMsg == MkPayload("", <<>>, PyInt(100), None, None, None, None, None)

Payloads == {TempsMsgA, VersionsMsg, OpenMsg}

\* "temps" messages with lists of every length 0..4, readings below zero,
\* the sentinel in each place, and a blower value that is missing, below 0,
\* above 10000 or not a number
TempsEmpty == MkPayload("temps", <<>>, PyInt(SENTINEL), PyInt(0 - 500), None, None, None, None)
TempsTwo == MkPayload("temps", <<0 - 400, 1000>>, PyInt(2000), PyInt(12000),
                      PyInt(8), None, None, None)
TempsThree == MkPayload("temps", <<SENTINEL, 250, 800>>, None, PyStr(2),
                        None, PyInt(90), None, None)
PayloadsReduce ==
    {TempsMsgA, TempsMsgB, TempsEmpty, TempsTwo, TempsThree, VersionsMsg, OpenMsg, NoNameMsg}

\* temps[i] if len(temps) > i else None   (i counted from 0)
TempAt(temps, i) == IF Len(temps) > i THEN PyInt(temps[i + 1]) ELSE None

\* max(0.0, min(100.0, float(blower or 0.0) / 100.0)), in hundredths of a percent;
\* float() of a non-numeric value raises and gives None
BlowerPct(blower) ==
    IF blower.t = "str" THEN None
    ELSE LET b == IF blower.t = "none" THEN 0 ELSE blower.v
         IN  PyFloat(IF b < 0 THEN 0 ELSE IF b > 10000 THEN 10000 ELSE b)

\* the assignments dev[k] = ... of a branch of _update, applied to dev
Assign(dev, new) ==
    [x \in (DOMAIN dev) \cup (DOMAIN new) |-> IF x \in DOMAIN new THEN new[x] ELSE dev[x]]

\* mutant: the "temps" branch stores the raw fields and leaves the derived
\* fields of the record as they were
ReduceTempsKeepDerived(dev, p) ==
    Assign(dev,
        [cook_id |-> p.cook_id,
         sec |-> p.sec,
         pit_tenth_c |-> TempAt(p.temps, 0),
         meat1_tenth_c |-> TempAt(p.temps, 1),
         meat2_tenth_c |-> TempAt(p.temps, 2),
         meat3_tenth_c |-> TempAt(p.temps, 3),
         set_temp |-> p.set_temp,
         blower |-> p.blower,
         online |-> PyBool(TRUE)])

\* mutant: the "temps" branch adds the elapsed seconds to those it has
ReduceTempsAddSec(dev, p) ==
    Assign(dev,
        [cook_id |-> p.cook_id,
         sec |-> IF p.sec.t = "int" /\ Get(dev, "sec").t = "int"
                 THEN PyInt(Get(dev, "sec").v + p.sec.v) ELSE p.sec,
         pit_tenth_c |-> TempAt(p.temps, 0),
         meat1_tenth_c |-> TempAt(p.temps, 1),
         meat2_tenth_c |-> TempAt(p.temps, 2),
         meat3_tenth_c |-> TempAt(p.temps, 3),
         set_temp |-> p.set_temp,
         blower |-> p.blower,
         pit_temp |-> _tenth_c_to_f(TempAt(p.temps, 0)),
         meat_1 |-> _tenth_c_to_f(TempAt(p.temps, 1)),
         meat_2 |-> _tenth_c_to_f(TempAt(p.temps, 2)),
         meat_3 |-> _tenth_c_to_f(TempAt(p.temps, 3)),
         set_temp_f |-> _tenth_c_to_f(p.set_temp),
         blower_pct |-> BlowerPct(p.blower),
         online |-> PyBool(TRUE)])

\* the "temps" branch of _update: every derived field is computed from the
\* raw field stored just before it
ReduceTemps(dev, p) ==
    Assign(dev,
        [cook_id |-> p.cook_id,
         sec |-> p.sec,
         pit_tenth_c |-> TempAt(p.temps, 0),
         meat1_tenth_c |-> TempAt(p.temps, 1),
         meat2_tenth_c |-> TempAt(p.temps, 2),
         meat3_tenth_c |-> TempAt(p.temps, 3),
         set_temp |-> p.set_temp,
         blower |-> p.blower,
         pit_temp |-> _tenth_c_to_f(TempAt(p.temps, 0)),
         meat_1 |-> _tenth_c_to_f(TempAt(p.temps, 1)),
         meat_2 |-> _tenth_c_to_f(TempAt(p.temps, 2)),
         meat_3 |-> _tenth_c_to_f(TempAt(p.temps, 3)),
         set_temp_f |-> _tenth_c_to_f(p.set_temp),
         blower_pct |-> BlowerPct(p.blower),
         online |-> PyBool(TRUE)])

\* mutant: the "versions" branch starts from an empty record
ReduceVersionsFresh(dev, p) ==
    Assign(EmptyDict, [hw_id |-> p.hw_id, app |-> p.app, online |-> PyBool(TRUE)])

\* the "versions" branch of _update
ReduceVersions(dev, p) ==
    Assign(dev, [hw_id |-> p.hw_id, app |-> p.app, online |-> PyBool(TRUE)])

\* mutant: a payload with an unknown name resets the record
ReduceUnknownReset(dev, p) ==
    IF p.name = "temps" THEN ReduceTemps(dev, p)
    ELSE IF p.name = "versions" THEN ReduceVersions(dev, p)
    ELSE EmptyDict

\* the reducer: the body of _update between taking the record and storing it
Reduce(dev, p) ==
    IF p.name = "temps" THEN ReduceTemps(dev, p)
    ELSE IF p.name = "versions" THEN ReduceVersions(dev, p)
    ELSE dev

\* dict((self.data or {}).get(str(device_id), {}))
DevOf(dataMap, did) == GetOr(dataMap, StrKey(did), EmptyDict)

\* bool(val)
Truthy(val) == IF val.t = "none" THEN FALSE ELSE IF val.t = "str" THEN TRUE ELSE val.v # 0

\* mutant: a device without an online field counts as online
IsDeviceOnlineDefaultTrue(dataMap, did) ==
    Truthy(GetOr(DevOf(dataMap, did), "online", PyBool(TRUE)))

\* is_device_online: bool(dev.get("online", False)) of the record looked up
is_device_online(dataMap, did) ==
    Truthy(GetOr(DevOf(dataMap, did), "online", PyBool(FALSE)))

\* mutant: the record is stored into a copy of the map taken before any commit
CommitStale(dataMap, did, dev) == Put(EmptyDict, StrKey(did), dev)

\* all_data = dict(self.data or {}); all_data[str(device_id)] = dev
Commit(dataMap, did, dev) == Put(dataMap, StrKey(did), dev)


\* -------------------------------------------------------------------- state
VARIABLES
    now,             \* time.monotonic(), in ticks
    data,            \* FlameBossCoordinator.data: str(device id) -> device record
    lastMsg,         \* _last_message_monotonic: device id -> time
    discovered,      \* _discovered_device_ids
    pendingRefresh,  \* _pending_refresh
    refreshTimers,   \* deadlines of the armed async_call_later(_do) timers
    sweepAt,         \* next firing of the _offline_check interval; NoTimer = _offline_unsub is None
    updateQ,         \* _update() tasks created and not yet run, oldest first
    lastPublish,     \* _last_publish_monotonic: device id -> time
    pubInflight,     \* async_publish_set_temp_tenth_c calls suspended in their connection
    busOut,          \* messages published on the bus, oldest first
    stopEvent,       \* FlameBossMqttClient._stop_event
    taskRef,         \* FlameBossMqttClient._task: index into tasks, NoTask = None
    tasks,           \* every _run() task ever created: [pc, wake, cancel]
    stopWait,        \* the task a suspended stop() awaits, NoTask = no stop() suspended
    life,            \* the config entry: "new", "started", "stopping", "stopped"
    burstStart,      \* history: time of the first commit not yet notified, NoTime = none
    notes,           \* history: number of "state changed" notifications
    discNotes,       \* history: device id -> number of "new device" notifications
    objs,            \* history: the dict objects made so far: [map, rec, handed], the
                     \*          number of the map object self.data refers to, of the
                     \*          record object of each device, and of the map object
                     \*          last passed to async_set_updated_data
    expect,          \* history: device id -> the record that reducing its messages in
                     \*          the order of their delivery gives
    reduced,         \* history: the last _update run: [did, name, p, again], again = the
                     \*          run before it reduced the same payload for the same device
    calls,           \* history: number of setPitSetpoint calls
    lastCall,        \* history: the last setPitSetpoint call: [did, fh, at, forwarded]
    acceptedAt,      \* history: device id -> time of the last forwarded call, NoTime = none
    pubErrors,       \* history: number of exceptions that left async_set_pit_setpoint_f
    rxCount,         \* history: number of messages taken by a receive loop
    cbCount,         \* history: number of on_message callback invocations
    connErrors       \* history: number of exceptions that left the async with block

coordV == <<data, lastMsg, discovered, pendingRefresh, refreshTimers, updateQ>>
coordH == <<burstStart, notes, discNotes, objs, expect, reduced>>
cmdV == <<lastPublish, pubInflight, busOut>>
cmdH == <<calls, lastCall, acceptedAt, pubErrors>>
clientV == <<stopEvent, taskRef, tasks, stopWait>>
clientH == <<rxCount, cbCount, connErrors>>
vars == <<now, coordV, coordH, sweepAt, cmdV, cmdH, clientV, clientH, life>>

NoTimer == 0 - 1
NoTime == 0 - 1
NoTask == 0

\* --------------------------------------------------------------- debounce
\* mutant: a call while pending restarts the window
ArmRefreshRestart(pending, timers, t) == <<t + Sec(REFRESH_DELAY)>>

\* mutant: a call while pending arms a second timer
ArmRefreshAlways(pending, timers, t) == Append(timers, t + Sec(REFRESH_DELAY))

\* mutant: once a timer has fired no further timer is armed
ArmRefreshFirstOnly(pending, timers, t) ==
    IF pending \/ notes > 0 THEN timers ELSE Append(timers, t + Sec(REFRESH_DELAY))

\* _schedule_refresh: the timers armed after the call (pending = the flag before it)
ArmRefresh(pending, timers, t) ==
    IF pending THEN timers ELSE Append(timers, t + Sec(REFRESH_DELAY))

\* _schedule_refresh, with the history of the burst it belongs to
ScheduleRefresh ==
    /\ refreshTimers' = ArmRefresh(pendingRefresh, refreshTimers, now)
    /\ pendingRefresh' = TRUE
    /\ burstStart' = IF burstStart = NoTime THEN now ELSE burstStart

\* _do: the debounce timer fires
RefreshFire ==
    /\ refreshTimers # <<>>
    /\ Head(refreshTimers) <= now
    /\ refreshTimers' = Tail(refreshTimers)
    /\ pendingRefresh' = FALSE
    /\ notes' = notes + 1
    /\ burstStart' = NoTime
    /\ objs' = [objs EXCEPT !.handed = objs.map]
    /\ UNCHANGED <<now, data, lastMsg, discovered, updateQ, discNotes, expect, reduced, sweepAt,
                   cmdV, cmdH, clientV, clientH, life>>

\* ------------------------------------------------------------- on message
\* mutant: every message counts as a first one
UnseenAlways(did, seen) == TRUE

\* if device_id not in self._discovered_device_ids
Unseen(did, seen) == did \notin seen

\* _on_mqtt_message up to the creation of the _update task
OnMessage(did, p) ==
    /\ lastMsg' = Put(lastMsg, did, now)
    /\ discovered' = discovered \cup {did}
    /\ discNotes' = IF Unseen(did, discovered)
                       THEN [discNotes EXCEPT ![did] = @ + 1] ELSE discNotes
    /\ updateQ' = Append(updateQ, [did |-> did, p |-> p])
    /\ expect' = [expect EXCEPT ![did] = Reduce(@, p)]

\* mutant: the stored object itself is written
SameDict(obj, n) == obj

\* dict(...): each of the n copies made is a new object, and the last one made
\* is the one stored
NewDict(obj, n) == obj + n

\* mutant: the event loop runs the task created last
PopReadyLast(q) == [u |-> q[Len(q)], rest |-> SubSeq(q, 1, Len(q) - 1)]

\* the event loop runs ready tasks in the order of their creation, and each
\* _update runs to its end once started: the lock is free whenever a task
\* asks for it, since no holder awaits anything inside it
PopReady(q) == [u |-> Head(q), rest |-> Tail(q)]

\* the _update task: take the record, reduce, commit, schedule the refresh
RunUpdate ==
    /\ updateQ # <<>>
    /\ LET u == PopReady(updateQ).u
       IN  data' = Commit(data, u.did, Reduce(DevOf(data, u.did), u.p))
    /\ updateQ' = PopReady(updateQ).rest
    /\ objs' = [objs EXCEPT !.map = NewDict(@, 1),
                            !.rec[PopReady(updateQ).u.did] = NewDict(@, 1)]
    /\ LET u == PopReady(updateQ).u
       IN  reduced' = [did |-> u.did, name |-> u.p.name, p |-> u.p,
                       again |-> reduced.did = u.did /\ reduced.p = u.p]
    /\ ScheduleRefresh
    /\ UNCHANGED <<now, lastMsg, discovered, notes, discNotes, expect, sweepAt,
                   cmdV, cmdH, clientV, clientH, life>>

\* ---------------------------------------------------------------- liveness
\* mutant: a gap of exactly the threshold already counts as offline
IsOnlineAtStrict(t, last) == (t - last) < Sec(OFFLINE_AFTER)

\* is_online = (now - last) <= 15.0
IsOnlineAt(t, last) == (t - last) <= Sec(OFFLINE_AFTER)

\* mutant: the sweep stores a record that holds the online flag only
SweepOneFresh(dataMap, did, t, last) ==
    LET dev == DevOf(dataMap, did)
        is_online == PyBool((t - last) <= Sec(OFFLINE_AFTER))
    IN  IF Get(dev, "online") # is_online
        THEN Commit(dataMap, did, Put(EmptyDict, "online", is_online))
        ELSE dataMap

\* one iteration of the loop of _offline_check
SweepOne(dataMap, did, t, last) ==
    LET dev == DevOf(dataMap, did)
        is_online == PyBool(IsOnlineAt(t, last))
    IN  IF Get(dev, "online") # is_online
        THEN Commit(dataMap, did, Put(dev, "online", is_online))
        ELSE dataMap

\* the loop of _offline_check over list(self._last_message_monotonic.items())
RECURSIVE SweepLoop(_, _, _, _)
SweepLoop(dataMap, ids, t, last) ==
    IF ids = {} THEN dataMap
    ELSE LET did == CHOOSE x \in ids : \A y \in ids : x <= y
         IN  SweepLoop(SweepOne(dataMap, did, t, last[did]), ids \ {did}, t, last)

\* mutant: the sweep never reports a change
SweepChangedNever(dataMap, ids, t, last) == FALSE

\* changed: some iteration stored a record
SweepChanged(dataMap, ids, t, last) ==
    \E did \in ids : Get(DevOf(dataMap, did), "online") # PyBool(IsOnlineAt(t, last[did]))

\* _offline_check, fired by async_track_time_interval
OfflineCheck ==
    /\ sweepAt # NoTimer
    /\ sweepAt <= now
    /\ sweepAt' = sweepAt + Sec(SWEEP_INTERVAL)
    /\ data' = SweepLoop(data, DOMAIN lastMsg, now, lastMsg)
    /\ LET flips == {d \in DOMAIN lastMsg :
                        Get(DevOf(data, d), "online") # PyBool(IsOnlineAt(now, lastMsg[d]))}
       IN  objs' = [objs EXCEPT !.map = NewDict(@, Cardinality(flips)),
                                !.rec = [d \in DeviceIds |->
                                            IF d \in flips THEN NewDict(@[d], 1) ELSE @[d]]]
    /\ IF SweepChanged(data, DOMAIN lastMsg, now, lastMsg)
       THEN ScheduleRefresh
       ELSE UNCHANGED <<refreshTimers, pendingRefresh, burstStart>>
    /\ UNCHANGED <<now, lastMsg, discovered, updateQ, notes, discNotes, expect, reduced,
                   cmdV, cmdH, clientV, clientH, life>>

\* ------------------------------------------------------------------ topics
\* A topic is its "/"-separated segments (topic.split("/")), a segment its characters.
NS == <<"f", "l", "a", "m", "e", "b", "o", "s", "s">>
SEND == <<"s", "e", "n", "d">>
DATA == <<"d", "a", "t", "a">>
FW == <<"f", "w">>
RECV == <<"r", "e", "c", "v">>

DigitChars == {"0", "1", "2", "3", "4", "5", "6", "7", "8", "9"}
DigitVal(c) == CASE c = "0" -> 0 [] c = "1" -> 1 [] c = "2" -> 2 [] c = "3" -> 3
                 [] c = "4" -> 4 [] c = "5" -> 5 [] c = "6" -> 6 [] c = "7" -> 7
                 [] c = "8" -> 8 [] c = "9" -> 9

\* str.isdigit(): not empty and every character a digit
IsDigit(seg) == Len(seg) > 0 /\ \A i \in 1..Len(seg) : seg[i] \in DigitChars

\* int() of a string of digits
RECURSIVE IntOf(_)
IntOf(seg) ==
    IF seg = <<>> THEN 0
    ELSE 10 * IntOf(SubSeq(seg, 1, Len(seg) - 1)) + DigitVal(seg[Len(seg)])

\* the decimal string of a device id below 10, as the controller writes it
Dec(did) == <<CHOOSE c \in DigitChars : DigitVal(c) = did>>

\* TOPIC_SEND_DATA, TOPIC_SEND_FW, TOPIC_RECV
TopicSendData(did) == <<NS, Dec(did), SEND, DATA>>
TopicSendFw(did) == <<NS, Dec(did), SEND, FW>>
TopicRecv(did) == <<NS, Dec(did), RECV>>

\* ---------------------------------------------------------------- commands
\* mutant: a call exactly 2 s after the accepted one is still dropped
RateLimitedInclusive(t, last) == (t - last) <= Sec(SETPOINT_MIN_INTERVAL)

\* if now - last < 2.0: return
RateLimited(t, last) == (t - last) < Sec(SETPOINT_MIN_INTERVAL)

\* mutant: the time of an accepted request is not recorded before the publish
RecordAcceptedLater(table, did, t) == table

\* mutant: one rate-limit window for all devices
RecordAcceptedAll(table, did, t) == [d \in DeviceIds |-> t]

\* self._last_publish_monotonic[int(device_id)] = now, before the publish is awaited
RecordAccepted(table, did, t) == Put(table, did, t)

\* TOPIC_RECV.format(device_id=...), {"name": "set_temp", "value": int(value)}
SetTempCommand(did, tenth_c) ==
    [did |-> did, topic |-> TopicRecv(did), name |-> "set_temp", key |-> "value",
     value |-> tenth_c]

\* setpoints (Fahrenheit, in hundredths) the callers ask for: one inside the
\* consumer's range of 100..450 and one above it
SetpointsF == {22500, 50000}

\* readings a controller reports as its setpoint: every value near zero, and
\* the neighbours of the sentinel
TenthsC == ((0 - MaxTenthC)..MaxTenthC) \cup {SENTINEL - 1, SENTINEL + 1}
\* the Fahrenheit values shown for them, which a caller sends back unchanged
SetpointsShown == {_tenth_c_to_f(PyInt(v)).v : v \in TenthsC}

\* async_set_pit_setpoint_f up to the await of the publish
SetPitSetpoint(did, fh) ==
    /\ life = "started"
    /\ calls < MaxCalls
    /\ calls' = calls + 1
    /\ LET last == IF did \in DOMAIN lastPublish THEN lastPublish[did] ELSE 0
           limited == RateLimited(now, last)
       IN  /\ lastCall' = [did |-> did, fh |-> fh, at |-> now, forwarded |-> ~limited]
           /\ IF limited
              THEN UNCHANGED <<lastPublish, pubInflight, acceptedAt>>
              ELSE /\ lastPublish' = RecordAccepted(lastPublish, did, now)
                   /\ pubInflight' = Append(pubInflight, SetTempCommand(did, _f_to_tenth_c(fh)))
                   /\ acceptedAt' = [acceptedAt EXCEPT ![did] = now]
    /\ UNCHANGED <<now, coordV, coordH, sweepAt, busOut, pubErrors, clientV, clientH, life>>

RemoveAt(seq, i) == [j \in 1..(Len(seq) - 1) |-> IF j < i THEN seq[j] ELSE seq[j + 1]]

\* async_publish_set_temp_tenth_c: the connection is up and the publish goes out
PublishDone(i) ==
    /\ i \in 1..Len(pubInflight)
    /\ busOut' = Append(busOut, pubInflight[i])
    /\ pubInflight' = RemoveAt(pubInflight, i)
    /\ UNCHANGED <<now, coordV, coordH, sweepAt, lastPublish, cmdH, clientV, clientH, life>>

\* async_publish_set_temp_tenth_c: aiomqtt raises; neither it nor
\* async_set_pit_setpoint_f has an except clause, so the error leaves both
\* and reaches the caller of the coordinator
PublishFail(i) ==
    /\ i \in 1..Len(pubInflight)
    /\ pubInflight' = RemoveAt(pubInflight, i)
    /\ pubErrors' = pubErrors + 1
    /\ UNCHANGED <<now, coordV, coordH, sweepAt, lastPublish, busOut, calls, lastCall,
                   acceptedAt, clientV, clientH, life>>

\* ------------------------------------------------------------- bus messages
\* message.payload: a JSON object, another JSON value, or bytes that are no JSON
JsonObject(p) == [kind |-> "object", obj |-> p]
JsonArray == [kind |-> "array", obj |-> NoNameMsg]
NotJson == [kind |-> "garbage", obj |-> NoNameMsg]

RawMsg(topic, body) == [topic |-> topic, body |-> body]

\* what the controllers ids publish
RawFrom(ids) == {RawMsg(TopicSendData(d), JsonObject(p)) : d \in ids, p \in Payloads}
RawGood == RawFrom(DeviceIds)

\* what the receive loop has to drop, and the echo of a command
RawBad ==
    { RawMsg(TopicSendData(1), NotJson),
      RawMsg(TopicSendData(1), JsonArray),
      RawMsg(<<NS, <<"1">>, SEND>>, JsonObject(TempsMsgA)),
      RawMsg(TopicRecv(2), JsonObject(NoNameMsg)),
      RawMsg(<<NS, <<"a", "1">>, SEND, DATA>>, JsonObject(TempsMsgA)),
      RawMsg(<<NS, <<"-", "1">>, SEND, DATA>>, JsonObject(TempsMsgA)),
      RawMsg(<<NS, <<>>, SEND, DATA>>, JsonObject(VersionsMsg)),
      RawMsg(<<NS>>, JsonObject(TempsMsgA)) }

\* mutant: a topic of three segments is long enough
DecodeShortTopic(m) ==
    IF m.body.kind = "garbage" THEN [ok |-> FALSE, did |-> 0, p |-> m.body.obj]
    ELSE IF Len(m.topic) < 3 \/ ~IsDigit(m.topic[2]) THEN [ok |-> FALSE, did |-> 0, p |-> m.body.obj]
    ELSE IF m.body.kind = "object" THEN [ok |-> TRUE, did |-> IntOf(m.topic[2]), p |-> m.body.obj]
    ELSE [ok |-> FALSE, did |-> 0, p |-> m.body.obj]

\* mutant: every JSON value is handed to the callback
DecodeAnyJson(m) ==
    IF m.body.kind = "garbage" THEN [ok |-> FALSE, did |-> 0, p |-> m.body.obj]
    ELSE IF Len(m.topic) < 4 \/ ~IsDigit(m.topic[2]) THEN [ok |-> FALSE, did |-> 0, p |-> m.body.obj]
    ELSE [ok |-> TRUE, did |-> IntOf(m.topic[2]), p |-> m.body.obj]

\* lines 144-180 of _run: what one received message gives the callback.
\* json.loads raises on bytes that are no JSON (caught at line 181); a short
\* topic or a device segment that is not all digits is skipped; only a JSON
\* object is handed on.
Decode(m) ==
    IF m.body.kind = "garbage" THEN [ok |-> FALSE, did |-> 0, p |-> m.body.obj]
    ELSE IF Len(m.topic) < 4 \/ ~IsDigit(m.topic[2]) THEN [ok |-> FALSE, did |-> 0, p |-> m.body.obj]
    ELSE IF m.body.kind = "object" THEN [ok |-> TRUE, did |-> IntOf(m.topic[2]), p |-> m.body.obj]
    ELSE [ok |-> FALSE, did |-> 0, p |-> m.body.obj]

\* ------------------------------------------------------------------ client
NewTask == [pc |-> "created", wake |-> NoTime, cancel |-> FALSE]

Runnable(i) == i \in 1..Len(tasks) /\ ~tasks[i].cancel

\* while not self._stop_event.is_set()
LoopHead(stopped) == IF stopped THEN "done" ELSE "connecting"

\* FlameBossMqttClient.start (use_tls is never set, so nothing is awaited)
ClientStart ==
    /\ stopEvent' = FALSE
    /\ tasks' = Append(tasks, NewTask)
    /\ taskRef' = Len(tasks) + 1
    /\ UNCHANGED stopWait

\* FlameBossCoordinator.async_start, called once by async_setup_entry
AsyncStart ==
    /\ life = "new"
    /\ ClientStart
    /\ sweepAt' = now + Sec(SWEEP_INTERVAL)
    /\ life' = "started"
    /\ UNCHANGED <<now, coordV, coordH, cmdV, cmdH, clientH>>

\* FlameBossMqttClient.start called again on a started client
StartAgain ==
    /\ life = "started"
    /\ Len(tasks) < MaxTasks
    /\ ClientStart
    /\ UNCHANGED <<now, coordV, coordH, sweepAt, cmdV, cmdH, clientH, life>>

\* self._task.cancel()
CancelTask(ts, i) == [ts EXCEPT ![i].cancel = (ts[i].pc # "done")]

\* FlameBossCoordinator.async_stop, called once by async_unload_entry:
\* detach the sweep, then FlameBossMqttClient.stop up to its await
AsyncStop ==
    /\ life = "started"
    /\ sweepAt' = NoTimer
    /\ stopEvent' = TRUE
    /\ IF taskRef # NoTask
       THEN /\ tasks' = CancelTask(tasks, taskRef)
            /\ stopWait' = taskRef
            /\ life' = "stopping"
            /\ UNCHANGED taskRef
       ELSE /\ life' = "stopped"
            /\ UNCHANGED <<tasks, stopWait, taskRef>>
    /\ UNCHANGED <<now, coordV, coordH, cmdV, cmdH, clientH>>

\* mutant: stop does not wait for the task
JoinedAtOnce(ts, i) == TRUE

\* await self._task: the awaited task has terminated
Joined(ts, i) == ts[i].pc = "done"

\* FlameBossMqttClient.stop after its await: self._task = None, and stop returns
StopReturn ==
    /\ life = "stopping"
    /\ Joined(tasks, stopWait)
    /\ taskRef' = NoTask
    /\ stopWait' = NoTask
    /\ life' = "stopped"
    /\ UNCHANGED <<now, coordV, coordH, sweepAt, cmdV, cmdH, stopEvent, tasks, clientH>>

SetPc(i, pc) == tasks' = [tasks EXCEPT ![i].pc = pc]

clientRest == <<now, coordV, coordH, sweepAt, cmdV, cmdH, stopEvent, taskRef, stopWait,
                rxCount, cbCount, life>>

\* _run starts: the first test of the while condition
TaskBegin(i) ==
    /\ Runnable(i)
    /\ tasks[i].pc = "created"
    /\ SetPc(i, LoopHead(stopEvent))
    /\ UNCHANGED <<clientRest, connErrors>>

\* aiomqtt.Client.__aenter__ returns: connected
ConnectOk(i) ==
    /\ Runnable(i)
    /\ tasks[i].pc = "connecting"
    /\ SetPc(i, "subscribing")
    /\ UNCHANGED <<clientRest, connErrors>>

\* every client.subscribe(t) returned
SubscribeOk(i) ==
    /\ Runnable(i)
    /\ tasks[i].pc = "subscribing"
    /\ SetPc(i, "receiving")
    /\ UNCHANGED <<clientRest, connErrors>>

\* mutant: the loop reconnects at once
AfterErrorNoSleep(t) == [pc |-> "connecting", wake |-> NoTime, cancel |-> FALSE]

\* the task after an exception left the async with block: both handlers sleep
AfterError(t) == [pc |-> "backoff", wake |-> t + Sec(RECONNECT_DELAY), cancel |-> FALSE]

\* aiomqtt.MqttError (or any other Exception) raised while connecting,
\* subscribing or waiting for a message
ConnError(i, latest) ==
    /\ Runnable(i)
    /\ tasks[i].pc \in {"connecting", "subscribing", "receiving"}
    /\ now <= latest
    /\ tasks' = [tasks EXCEPT ![i] = AfterError(now)]
    /\ connErrors' = connErrors + 1
    /\ UNCHANGED clientRest

\* asyncio.sleep(5) returns and the while condition is tested again
BackoffDone(i) ==
    /\ Runnable(i)
    /\ tasks[i].pc = "backoff"
    /\ tasks[i].wake <= now
    /\ tasks' = [tasks EXCEPT ![i] = [pc |-> LoopHead(stopEvent), wake |-> NoTime, cancel |-> FALSE]]
    /\ UNCHANGED <<clientRest, connErrors>>

\* one iteration of "async for message in client.messages".  raises: the
\* callback (any Callable) raises before it has changed anything.
Receive(i, m, raises, maxRx) ==
    /\ Runnable(i)
    /\ tasks[i].pc = "receiving"
    /\ rxCount < maxRx
    /\ rxCount' = rxCount + 1
    /\ IF stopEvent
       THEN /\ SetPc(i, "closing")
            /\ UNCHANGED <<lastMsg, discovered, discNotes, expect, updateQ, cbCount>>
       ELSE /\ UNCHANGED tasks
            /\ LET dl == Decode(m)
               IN  IF ~dl.ok
                   THEN UNCHANGED <<lastMsg, discovered, discNotes, expect, updateQ, cbCount>>
                   ELSE /\ cbCount' = cbCount + 1
                        /\ IF raises
                           THEN UNCHANGED <<lastMsg, discovered, discNotes, expect, updateQ>>
                           ELSE OnMessage(dl.did, dl.p)
    /\ UNCHANGED <<now, data, pendingRefresh, refreshTimers, burstStart, notes, objs, reduced,
                   sweepAt,
                   cmdV, cmdH, stopEvent, taskRef, stopWait, connErrors, life>>

\* the break at line 142 left the async with block: the while condition again
CloseDone(i) ==
    /\ Runnable(i)
    /\ tasks[i].pc = "closing"
    /\ SetPc(i, LoopHead(stopEvent))
    /\ UNCHANGED <<clientRest, connErrors>>

\* CancelledError is thrown into the task at its await, and the task ends
TaskCancelled(i) ==
    /\ i \in 1..Len(tasks)
    /\ tasks[i].cancel
    /\ tasks' = [tasks EXCEPT ![i] = [pc |-> "done", wake |-> NoTime, cancel |-> FALSE]]
    /\ UNCHANGED <<clientRest, connErrors>>

\* -------------------------------------------------------------------- time
\* The event loop runs what is ready before it sleeps: time does not pass
\* while a timer is due or a created task has not had its first run.  The
\* origin of time.monotonic() is not specified: it is taken at the set-up of
\* the config entry.
Tick(maxSec) ==
    /\ now < Sec(maxSec)
    /\ life # "new"
    /\ updateQ = <<>>
    /\ \A i \in 1..Len(refreshTimers) : refreshTimers[i] > now
    /\ sweepAt = NoTimer \/ sweepAt > now
    /\ \A i \in 1..Len(tasks) :
          /\ tasks[i].pc # "created"
          /\ tasks[i].pc = "backoff" /\ ~tasks[i].cancel => tasks[i].wake > now
    /\ now' = now + 1
    /\ UNCHANGED <<coordV, coordH, sweepAt, cmdV, cmdH, clientV, clientH, life>>

\* ------------------------------------------------------------------- init
Init ==
    /\ now = 0
    /\ data = EmptyDict
    /\ lastMsg = EmptyDict
    /\ discovered = {}
    /\ pendingRefresh = FALSE
    /\ refreshTimers = <<>>
    /\ sweepAt = NoTimer
    /\ updateQ = <<>>
    /\ lastPublish = EmptyDict
    /\ pubInflight = <<>>
    /\ busOut = <<>>
    /\ stopEvent = FALSE
    /\ taskRef = NoTask
    /\ tasks = <<>>
    /\ stopWait = NoTask
    /\ life = "new"
    /\ burstStart = NoTime
    /\ notes = 0
    /\ discNotes = [d \in DeviceIds |-> 0]
    /\ objs = [map |-> 0, rec |-> [d \in DeviceIds |-> 0], handed |-> 0]
    /\ expect = [d \in DeviceIds |-> EmptyDict]
    /\ reduced = [did |-> 0, name |-> "none", p |-> NoNameMsg, again |-> FALSE]
    /\ calls = 0
    /\ lastCall = [did |-> 0, fh |-> 0, at |-> NoTime, forwarded |-> FALSE]
    /\ acceptedAt = [d \in DeviceIds |-> NoTime]
    /\ pubErrors = 0
    /\ rxCount = 0
    /\ cbCount = 0
    /\ connErrors = 0

\* ----------------------------------------------------------- specifications
TaskIds == 1..MaxTasks

\* In the coordinator runs the broker answers at once: the connection is up
\* before time passes, and every later message time is still covered.
Connected == \A i \in 1..Len(tasks) : tasks[i].pc \notin {"connecting", "subscribing"}

\* one controller on a healthy connection over the liveness horizon:
\* telemetry, updates, sweeps and the debounce timer
TickLive == Connected /\ Tick(MaxSecLive)
NextLive ==
    \/ AsyncStart
    \/ \E i \in TaskIds : TaskBegin(i) \/ ConnectOk(i) \/ SubscribeOk(i)
    \/ \E i \in TaskIds, m \in RawFrom({1}) : Receive(i, m, FALSE, MaxMsgsLive)
    \/ RunUpdate
    \/ OfflineCheck
    \/ RefreshFire
    \/ TickLive
SpecLive == Init /\ [][NextLive]_vars

\* two controllers on a healthy connection, before the first sweep
TickCoord == Connected /\ Tick(MaxSecCoord)
NextCoord ==
    \/ AsyncStart
    \/ \E i \in TaskIds : TaskBegin(i) \/ ConnectOk(i) \/ SubscribeOk(i)
    \/ \E i \in TaskIds, m \in RawGood : Receive(i, m, FALSE, MaxMsgs)
    \/ RunUpdate
    \/ RefreshFire
    \/ TickCoord
SpecCoord == Init /\ [][NextCoord]_vars

\* one controller sending every kind of payload, up to the first sweep
RawReduce == {RawMsg(TopicSendData(1), JsonObject(p)) : p \in PayloadsReduce}
TickReduce == Connected /\ Tick(SWEEP_INTERVAL)
NextReduce ==
    \/ AsyncStart
    \/ \E i \in TaskIds : TaskBegin(i) \/ ConnectOk(i) \/ SubscribeOk(i)
    \/ \E i \in TaskIds, m \in RawReduce : Receive(i, m, FALSE, MaxMsgs)
    \/ RunUpdate
    \/ OfflineCheck
    \/ RefreshFire
    \/ TickReduce
SpecReduce == Init /\ [][NextReduce]_vars

\* controller 1 with two different "temps" messages and one that leaves the
\* online flag to the sweep, next to controller 2, up to the first sweep
PayloadsOrder == {TempsMsgA, TempsMsgB, OpenMsg}
RawOrder ==
    {RawMsg(TopicSendData(1), JsonObject(p)) : p \in PayloadsOrder}
        \cup {RawMsg(TopicSendData(2), JsonObject(TempsMsgB))}
TickOrder == Connected /\ Tick(SWEEP_INTERVAL)
NextOrder ==
    \/ AsyncStart
    \/ \E i \in TaskIds : TaskBegin(i) \/ ConnectOk(i) \/ SubscribeOk(i)
    \/ \E i \in TaskIds, m \in RawOrder : Receive(i, m, FALSE, MaxMsgs)
    \/ RunUpdate
    \/ OfflineCheck
    \/ RefreshFire
    \/ TickOrder
SpecOrder == Init /\ [][NextOrder]_vars

\* the command path: setpoint requests and their publishes
TickCmd == Tick(MaxSecCmd)
NextCmd ==
    \/ AsyncStart
    \/ \E i \in TaskIds : TaskBegin(i)
    \/ \E d \in DeviceIds, fh \in SetpointsF : SetPitSetpoint(d, fh)
    \/ \E i \in 1..MaxCalls : PublishDone(i) \/ PublishFail(i)
    \/ TickCmd
SpecCmd == Init /\ [][NextCmd]_vars

\* two controllers that each report once, with setpoint requests side by
\* side, up to one debounce window after the first rate-limit window of the
\* clock
RawBoth(d) == RawMsg(TopicSendData(d), JsonObject(TempsMsgA))
TickBoth == Connected /\ Tick(SETPOINT_MIN_INTERVAL + REFRESH_DELAY)
NextBoth ==
    \/ AsyncStart
    \/ \E i \in TaskIds : TaskBegin(i) \/ ConnectOk(i) \/ SubscribeOk(i)
    \/ \E i \in TaskIds, d \in DeviceIds :
          d \notin discovered /\ Receive(i, RawBoth(d), FALSE, MaxMsgsClient)
    \/ RunUpdate
    \/ RefreshFire
    \/ \E d \in DeviceIds : SetPitSetpoint(d, 22500)
    \/ PublishDone(1)
    \/ TickBoth
SpecBoth == Init /\ [][NextBoth]_vars

\* the wildcard subscription "flameboss/#" also matches the command topic:
\* the broker sends a published command back to the client.  The payload is
\* {"name": "set_temp", "value": ...}; no key of it is one the reducer reads.
EchoOf(cmd) ==
    RawMsg(cmd.topic, JsonObject(MkPayload(cmd.name, <<>>, None, None, None, None, None, None)))

\* autodiscovery with commands: controller 1 reports once; one setpoint
\* request for it is made after the first rate-limit window of the clock,
\* goes out at once and comes back at once as an echo; over one offline
\* threshold and one sweep
TickEcho ==
    /\ Connected
    /\ pubInflight = <<>>
    /\ rxCount - cbCount >= Len(busOut)
    /\ Tick(OFFLINE_AFTER + SWEEP_INTERVAL)
NextEcho ==
    \/ AsyncStart
    \/ \E i \in TaskIds : TaskBegin(i) \/ ConnectOk(i) \/ SubscribeOk(i)
    \/ \E i \in TaskIds : 1 \notin discovered /\ Receive(i, RawBoth(1), FALSE, MaxMsgsClient)
    \/ \E i \in TaskIds, k \in 1..MaxCalls :
          k <= Len(busOut) /\ Receive(i, EchoOf(busOut[k]), FALSE, MaxMsgsClient)
    \/ RunUpdate
    \/ OfflineCheck
    \/ RefreshFire
    \/ /\ 1 \notin DOMAIN lastPublish
       /\ now >= Sec(SETPOINT_MIN_INTERVAL)
       /\ SetPitSetpoint(1, 22500)
    \/ PublishDone(1)
    \/ TickEcho
SpecEcho == Init /\ [][NextEcho]_vars

\* the conversions: a caller sends back a setpoint the coordinator showed,
\* once the first rate-limit window of the clock has passed
TickConv == Tick(SETPOINT_MIN_INTERVAL)
NextConv ==
    \/ AsyncStart
    \/ \E i \in TaskIds : TaskBegin(i)
    \/ \E fh \in SetpointsShown : SetPitSetpoint(1, fh)
    \/ \E i \in 1..MaxCalls : PublishDone(i)
    \/ TickConv
SpecConv == Init /\ [][NextConv]_vars

\* the client: connection errors, malformed messages, a raising callback, stop
RawClient == RawFrom({1}) \cup RawBad
LatestError == Sec(MaxSecClient) - Sec(RECONNECT_DELAY)
TickClient == Tick(MaxSecClient)
NextClient ==
    \/ AsyncStart
    \/ AsyncStop
    \/ StopReturn
    \/ \E i \in TaskIds : TaskBegin(i) \/ ConnectOk(i) \/ SubscribeOk(i)
    \/ \E i \in TaskIds : ConnError(i, LatestError) \/ BackoffDone(i) \/ TaskCancelled(i)
    \/ \E i \in TaskIds, m \in RawClient, raises \in BOOLEAN : Receive(i, m, raises, MaxMsgsClient)
    \/ RunUpdate
    \/ OfflineCheck
    \/ RefreshFire
    \/ TickClient
SpecClient == Init /\ [][NextClient]_vars

\* the reconnect loop with one kind of telemetry message
NextReconnect ==
    \/ AsyncStart
    \/ AsyncStop
    \/ StopReturn
    \/ \E i \in TaskIds : TaskBegin(i) \/ ConnectOk(i) \/ SubscribeOk(i)
    \/ \E i \in TaskIds : ConnError(i, LatestError) \/ BackoffDone(i) \/ TaskCancelled(i)
    \/ \E i \in TaskIds :
          Receive(i, RawMsg(TopicSendFw(1), JsonObject(VersionsMsg)), FALSE, MaxMsgsClient)
    \/ RunUpdate
    \/ OfflineCheck
    \/ RefreshFire
    \/ TickClient

\* the event loop keeps running: it runs a ready callback or task, or a
\* sleep that has run its time returns, or the clock advances
EventLoop ==
    \/ TickClient
    \/ RunUpdate
    \/ OfflineCheck
    \/ RefreshFire
    \/ \E i \in TaskIds : TaskBegin(i) \/ BackoffDone(i)
SpecReconnect == Init /\ [][NextReconnect]_vars /\ WF_vars(EventLoop)

\* notifications: one controller on a running event loop, with messages up
\* to the last moment whose debounce window still ends inside the horizon
PayloadsNotify == {VersionsMsg, OpenMsg}
LatestCommit == Sec(MaxSecClient) - Sec(REFRESH_DELAY)
NextNotify ==
    \/ AsyncStart
    \/ \E i \in TaskIds : TaskBegin(i) \/ ConnectOk(i) \/ SubscribeOk(i)
    \/ \E i \in TaskIds, p \in PayloadsNotify :
          /\ now <= LatestCommit
          /\ Receive(i, RawMsg(TopicSendData(1), JsonObject(p)), FALSE, MaxMsgsClient)
    \/ RunUpdate
    \/ OfflineCheck
    \/ RefreshFire
    \/ TickClient
SpecNotify == Init /\ [][NextNotify]_vars /\ WF_vars(EventLoop)

\* the client when start() is called again on a started client
NextRestart ==
    \/ NextClient
    \/ StartAgain
    \/ \E i \in TaskIds : CloseDone(i)
SpecRestart == Init /\ [][NextRestart]_vars

\* ------------------------------------------------------------------ claims
\* dev.get("online") is True / is False
Online(dataMap, did) == Get(DevOf(dataMap, did), "online") = PyBool(TRUE)
Offline(dataMap, did) == Get(DevOf(dataMap, did), "online") = PyBool(FALSE)

\* C1: a burst of commits that starts with no timer pending has exactly one
\* timer, armed 1 s after the first commit of the burst; time does not pass
\* that deadline with the burst still open; and a notification is one
\* notification, it closes the burst, and it comes at least 1 s and less than
\* 2 s after the first commit of the burst.
C1_BurstOpen ==
    burstStart # NoTime =>
        /\ refreshTimers = <<burstStart + Sec(REFRESH_DELAY)>>
        /\ now <= burstStart + Sec(REFRESH_DELAY)
C1_Notify ==
    notes' # notes =>
        /\ notes' = notes + 1
        /\ burstStart # NoTime
        /\ now - burstStart >= Sec(1)
        /\ now - burstStart < Sec(2)
        /\ burstStart' = NoTime
C1_DebounceBurst == [](C1_BurstOpen) /\ [][C1_Notify]_vars

\* C1 witness: three messages were committed, the first and the last at
\* different times, and one notification closed the burst.
C1_Witness ==
    /\ notes = 1
    /\ burstStart = NoTime
    /\ rxCount = 3
    /\ updateQ = <<>>
    /\ refreshTimers = <<>>
    /\ now = lastMsg[1] + 1

\* C2: at most one debounce timer is armed, the pending flag is set exactly
\* while one is armed, and a step that leaves the flag set leaves the timer
\* and its deadline alone.
C2_OneTimer ==
    /\ Len(refreshTimers) <= 1
    /\ pendingRefresh <=> Len(refreshTimers) = 1
C2_NoRearm == pendingRefresh /\ pendingRefresh' => refreshTimers' = refreshTimers
C2_SingleTimer == [](C2_OneTimer) /\ [][C2_NoRearm]_vars

\* C2 witness: a message was committed after the timer was armed and while
\* it is still pending.
C2_Witness ==
    /\ pendingRefresh
    /\ burstStart # NoTime
    /\ burstStart < now
    /\ 1 \in DOMAIN lastMsg
    /\ lastMsg[1] = now
    /\ updateQ = <<>>

\* C4: a device's online flag becomes true only in the step that reduces a
\* "temps" or "versions" message for that device, never in a sweep.
C4_BecomesOnline(d) == ~Online(data, d) /\ Online(data', d)
C4_ByReducer(d) ==
    /\ updateQ # <<>>
    /\ updateQ' = Tail(updateQ)
    /\ Head(updateQ).did = d
    /\ Head(updateQ).p.name \in {"temps", "versions"}
C4_SweepNeverOnline ==
    [][\A d \in DeviceIds : C4_BecomesOnline(d) => C4_ByReducer(d)]_vars

\* C5: a sweep at time t turns an online device offline exactly when t minus
\* the time of its last message exceeds 15 s, and otherwise leaves its record
\* as it is.
C5_SweepStep == sweepAt # NoTimer /\ sweepAt' > sweepAt
C5_Threshold(d) ==
    Online(data, d) =>
        IF now - lastMsg[d] > Sec(15)
        THEN Offline(data', d)
        ELSE DevOf(data', d) = DevOf(data, d)
C5_LivenessThreshold ==
    [][C5_SweepStep => \A d \in DeviceIds : C5_Threshold(d)]_vars

\* C5 witness: a sweep has turned the device offline, 15.5 s after its last message.
C5_Witness ==
    /\ Offline(data, 1)
    /\ sweepAt = now + Sec(SWEEP_INTERVAL)
    /\ 2 * (now - lastMsg[1]) = Sec(31)

\* C6: a device has one "new device" notification if it is in the discovered
\* set and none otherwise; a message for a device adds it to the set and
\* emits a notification only if it was not in it; the set only grows.
C6_OncePerDevice ==
    \A d \in DeviceIds : discNotes[d] = IF d \in discovered THEN 1 ELSE 0
C6_MessageFor(d) ==
    /\ Len(updateQ') = Len(updateQ) + 1
    /\ updateQ'[Len(updateQ')].did = d
C6_OnMessage(d) ==
    C6_MessageFor(d) =>
        /\ discovered' = discovered \cup {d}
        /\ discNotes'[d] = discNotes[d] + (IF d \in discovered THEN 0 ELSE 1)
        /\ \A e \in DeviceIds \ {d} : discNotes'[e] = discNotes[e]
C6_Grows == discovered \subseteq discovered'
C6_DiscoveryOnce ==
    /\ [](C6_OncePerDevice)
    /\ [][(\A d \in DeviceIds : C6_OnMessage(d)) /\ C6_Grows]_vars

\* C6 witness: two messages came for device 1 and one for device 2.
C6_Witness ==
    /\ rxCount = 3
    /\ discovered = {1, 2}
    /\ discNotes[1] = 1
    /\ discNotes[2] = 1
    /\ lastMsg[1] > lastMsg[2]

\* C3: a setPitSetpoint call for a device with an earlier forwarded call is
\* forwarded exactly when at least 2 s have passed since that forwarded call;
\* a forwarded call hands one command for that device to the bus client; a
\* dropped call changes neither the window nor anything that is or will be
\* published; and nothing reaches the bus but a command handed over before.
C3_Forwarded == Len(pubInflight') = Len(pubInflight) + 1
C3_Call ==
    calls' = calls + 1 =>
        LET d == lastCall'.did
        IN  /\ acceptedAt[d] # NoTime =>
                  (C3_Forwarded <=> now - acceptedAt[d] >= Sec(2))
            /\ C3_Forwarded =>
                  /\ SubSeq(pubInflight', 1, Len(pubInflight)) = pubInflight
                  /\ pubInflight'[Len(pubInflight')].did = d
            /\ ~C3_Forwarded => UNCHANGED <<lastPublish, pubInflight, busOut, acceptedAt>>
C3_Publish ==
    busOut' # busOut =>
        \E i \in 1..Len(pubInflight) :
            /\ busOut' = Append(busOut, pubInflight[i])
            /\ pubInflight' = RemoveAt(pubInflight, i)
C3_RateLimit == [][C3_Call /\ C3_Publish]_vars

\* C3 witness: the second call came 500 ms after the forwarded one and was
\* dropped, and one command is on the bus.
C3_Witness ==
    /\ calls = 2
    /\ lastCall.did = 1
    /\ ~lastCall.forwarded
    /\ acceptedAt[1] # NoTime
    /\ 2 * (lastCall.at - acceptedAt[1]) = Sec(1)
    /\ Len(busOut) = 1
    /\ pubInflight = <<>>

\* C7: while stop() is suspended the stop event is set and the task it
\* awaits is cancelled; stop() returns only when that task has terminated;
\* once the coordinator's stop has returned every receive task has
\* terminated, the task handle is cleared, the sweep is detached, and no
\* message is taken, no callback invoked and no sweep run any more.
C7_Stopping ==
    life = "stopping" =>
        /\ stopEvent
        /\ sweepAt = NoTimer
        /\ tasks[stopWait].cancel \/ tasks[stopWait].pc = "done"
C7_Stopped ==
    life = "stopped" =>
        /\ \A i \in 1..Len(tasks) : tasks[i].pc = "done"
        /\ taskRef = NoTask
        /\ sweepAt = NoTimer
C7_ReturnAfterJoin ==
    life = "stopping" /\ life' = "stopped" => tasks[stopWait].pc = "done"
C7_Quiet ==
    life = "stopped" =>
        /\ life' = "stopped"
        /\ UNCHANGED <<tasks, rxCount, cbCount, sweepAt, lastMsg, discovered>>
C7_StopTerminal ==
    /\ [](C7_Stopping /\ C7_Stopped)
    /\ [][C7_ReturnAfterJoin /\ C7_Quiet]_vars

\* C7 witness: stop was called while the loop waited out its backoff, and
\* has returned before the backoff would have ended.
C7_Witness ==
    /\ life = "stopped"
    /\ connErrors = 1
    /\ now < Sec(RECONNECT_DELAY)
    /\ Len(tasks) = 1
    /\ tasks[1].pc = "done"

\* C8: at most one receive loop has not terminated, and it is the one the
\* client's task handle refers to.
C8_StartIdempotent ==
    \A i \in 1..Len(tasks) : tasks[i].pc # "done" => taskRef = i

\* C9: a receive loop ends only after stop was called; every connection
\* error puts the loop into its backoff, to wake 5 s later; a connection
\* attempt is the first one of the loop or follows a backoff that has run its
\* 5 s; and a loop in its backoff eventually makes a new attempt, unless
\* stop is called.
C9_NoSelfExit ==
    \A i \in 1..Len(tasks) :
        tasks[i].pc # "done" /\ tasks'[i].pc = "done" => stopEvent
C9_ErrorBacksOff ==
    connErrors' # connErrors =>
        \E i \in 1..Len(tasks) :
            /\ tasks[i].pc \in {"connecting", "subscribing", "receiving"}
            /\ tasks'[i].pc = "backoff"
            /\ tasks'[i].wake = now + Sec(5)
            /\ \A j \in 1..Len(tasks) : j # i => tasks'[j] = tasks[j]
C9_AttemptAfterBackoff ==
    \A i \in 1..Len(tasks) :
        tasks[i].pc # "connecting" /\ tasks'[i].pc = "connecting" =>
            \/ tasks[i].pc = "created"
            \/ tasks[i].pc = "backoff" /\ now >= tasks[i].wake
C9_InBackoff(i) == i <= Len(tasks) /\ tasks[i].pc = "backoff"
C9_NewAttempt(i) == stopEvent \/ (i <= Len(tasks) /\ tasks[i].pc = "connecting")
C9_Reconnect ==
    /\ [][C9_NoSelfExit /\ C9_ErrorBacksOff /\ C9_AttemptAfterBackoff]_vars
    /\ \A i \in TaskIds : C9_InBackoff(i) ~> C9_NewAttempt(i)

\* C9 witness: after one connection error and its backoff the loop is
\* receiving again, and stop was not called.
C9_Witness ==
    /\ connErrors = 1
    /\ ~stopEvent
    /\ Len(tasks) = 1
    /\ tasks[1].pc = "receiving"
    /\ now >= Sec(RECONNECT_DELAY)

\* C10: a received message that is no JSON, no JSON object, has fewer than 4
\* topic segments or a device segment that is no non-negative integer changes
\* neither the callback count, the state map, the last-seen map, the
\* discovered set, the pending updates nor the receive loop; a well-formed
\* message invokes the callback once; and the loop goes on when the callback
\* raises.
C10_NonNegInt(seg) == seg # <<>> /\ \A k \in 1..Len(seg) : seg[k] \in DigitChars
C10_Malformed(m) ==
    \/ m.body.kind # "object"
    \/ Len(m.topic) < 4
    \/ ~C10_NonNegInt(m.topic[2])
C10_Received(m, raises) == \E i \in TaskIds : Receive(i, m, raises, MaxMsgsClient)
C10_Dropped ==
    \A m \in RawClient, raises \in BOOLEAN :
        C10_Malformed(m) /\ C10_Received(m, raises) =>
            UNCHANGED <<cbCount, data, lastMsg, discovered, discNotes, updateQ, tasks>>
C10_Delivered ==
    \A m \in RawClient, raises \in BOOLEAN :
        ~C10_Malformed(m) /\ C10_Received(m, raises) =>
            /\ cbCount' = cbCount + 1
            /\ tasks' = tasks
C10_MalformedDropped == [][C10_Dropped /\ C10_Delivered]_vars

\* C10 witness: of two messages taken one was dropped and one delivered, and
\* the loop is still receiving.
C10_Witness ==
    /\ rxCount = 2
    /\ cbCount = 1
    /\ Len(updateQ) = 1
    /\ Len(tasks) = 1
    /\ tasks[1].pc = "receiving"
    /\ ~stopEvent

\* C11: in every reachable state, for every device and each pair of a raw
\* tenths-Celsius field and its Fahrenheit field (pit, meat 1..3, setpoint):
\* when the raw field holds a reading other than the sentinel the Fahrenheit
\* field is 9/5 of it plus 32, and when the raw field is absent or the
\* sentinel the Fahrenheit field is absent.
C11_Pairs ==
    { <<"pit_tenth_c", "pit_temp">>, <<"meat1_tenth_c", "meat_1">>,
      <<"meat2_tenth_c", "meat_2">>, <<"meat3_tenth_c", "meat_3">>,
      <<"set_temp", "set_temp_f">> }
C11_Derived(dev, pair) ==
    LET raw == Get(dev, pair[1])
        f == Get(dev, pair[2])
    IN  IF raw.t = "int" /\ raw.v # SENTINEL
        THEN f.t = "float" /\ 10 * f.v = 180 * raw.v + 32000
        ELSE raw \in {None, PyInt(SENTINEL)} /\ f = None
C11_DerivedFromRaw ==
    \A d \in DeviceIds : \A pair \in C11_Pairs : C11_Derived(DevOf(data, d), pair)

\* C11 witness: a record that took a "temps" message with a sentinel probe and
\* a "versions" message, after the first sweep has run.
C11_Witness ==
    LET dev == DevOf(data, 1)
    IN  /\ Get(dev, "pit_tenth_c") = PyInt(250)
        /\ Get(dev, "pit_temp") = PyFloat(7700)
        /\ Get(dev, "meat2_tenth_c") = PyInt(SENTINEL)
        /\ Get(dev, "hw_id") = PyInt(3)
        /\ sweepAt > Sec(SWEEP_INTERVAL)

\* C12: the run of _update for a "temps" message leaves, in the record of its
\* device: for each index 0..3, the reading at that index of the list as the
\* raw field (pit, meat 1..3) and 9/5 of it plus 32 as the Fahrenheit field,
\* both absent when the list is shorter, the Fahrenheit field absent when the
\* reading is -32767; the setpoint converted the same way; online true.  For
\* temps [250, 800, -32767, -32767], set_temp 260, blower 4500 that is pit
\* 77.0, meat1 176.0, meat2 and meat3 absent, setpoint 78.8, blower 45.0.
C12_Fields == <<<<"pit_tenth_c", "pit_temp">>, <<"meat1_tenth_c", "meat_1">>,
                <<"meat2_tenth_c", "meat_2">>, <<"meat3_tenth_c", "meat_3">>>>
C12_ToF(f, v) == IF v = 0 - 32767 THEN f = None ELSE f.t = "float" /\ 10 * f.v = 180 * v + 32000
C12_Example(dev) ==
    /\ Get(dev, "pit_temp") = PyFloat(7700)
    /\ Get(dev, "meat_1") = PyFloat(17600)
    /\ Get(dev, "meat_2") = None
    /\ Get(dev, "meat_3") = None
    /\ Get(dev, "set_temp_f") = PyFloat(7880)
    /\ Get(dev, "blower_pct") = PyFloat(4500)
    /\ Get(dev, "online") = PyBool(TRUE)
C12_Reduced(p, dev) ==
    /\ \A i \in 0..3 :
          IF i < Len(p.temps)
          THEN /\ Get(dev, C12_Fields[i + 1][1]) = PyInt(p.temps[i + 1])
               /\ C12_ToF(Get(dev, C12_Fields[i + 1][2]), p.temps[i + 1])
          ELSE /\ Get(dev, C12_Fields[i + 1][1]) = None
               /\ Get(dev, C12_Fields[i + 1][2]) = None
    /\ Get(dev, "set_temp") = p.set_temp
    /\ IF p.set_temp.t = "int"
       THEN C12_ToF(Get(dev, "set_temp_f"), p.set_temp.v)
       ELSE Get(dev, "set_temp_f") = None
    /\ Get(dev, "online") = PyBool(TRUE)
    /\ p.temps = <<250, 800, 0 - 32767, 0 - 32767>> /\ p.set_temp = PyInt(260)
          /\ p.blower = PyInt(4500) => C12_Example(dev)
C12_TempsStep ==
    updateQ # <<>> /\ updateQ' = Tail(updateQ) /\ Head(updateQ).p.name = "temps" =>
        C12_Reduced(Head(updateQ).p, DevOf(data', Head(updateQ).did))
C12_TempsReduced == [][C12_TempsStep]_vars

\* C12 witness: the example message has been reduced, and nothing is queued.
C12_Witness ==
    /\ updateQ = <<>>
    /\ C12_Example(DevOf(data, 1))
    /\ Get(DevOf(data, 1), "meat1_tenth_c") = PyInt(800)
    /\ Get(DevOf(data, 1), "meat3_tenth_c") = PyInt(SENTINEL)

\* C13: the run of _update for a "temps" message leaves as blower percent the
\* raw blower value divided by 100 and clamped to 0..100 when the message
\* carries a number, and leaves it absent when the message carries no blower
\* value or one that is not a number.
C13_Clamp(raw) == IF raw < 0 THEN 0 ELSE IF raw > 10000 THEN 10000 ELSE raw
C13_TempsStep ==
    updateQ # <<>> /\ updateQ' = Tail(updateQ) /\ Head(updateQ).p.name = "temps" =>
        LET blower == Head(updateQ).p.blower
            pct == Get(DevOf(data', Head(updateQ).did), "blower_pct")
        IN  IF blower.t = "int"
            THEN pct = PyFloat(C13_Clamp(blower.v))
            ELSE pct = None
C13_BlowerPercent == [][C13_TempsStep]_vars

\* C14: the run of _update for a payload whose name is neither "temps" nor
\* "versions" (or is missing), for a device that has a record, runs to its
\* end and leaves that record, online included, and the whole map as they
\* were.
C14_UnknownStep ==
    /\ updateQ # <<>>
    /\ updateQ' = Tail(updateQ)
    /\ Head(updateQ).p.name \notin {"temps", "versions"}
    /\ StrKey(Head(updateQ).did) \in DOMAIN data
    => /\ data'[StrKey(Head(updateQ).did)] = data[StrKey(Head(updateQ).did)]
       /\ data' = data
C14_UnknownNoOp == [][C14_UnknownStep]_vars

\* C14 witness: the last payload reduced had no name, and the record still
\* holds the telemetry and the hardware id of the two messages before it.
C14_Witness ==
    /\ reduced.name = ""
    /\ updateQ = <<>>
    /\ rxCount = 3
    /\ Get(DevOf(data, 1), "pit_temp") = PyFloat(8600)
    /\ Get(DevOf(data, 1), "hw_id") = PyInt(3)
    /\ Get(DevOf(data, 1), "online") = PyBool(TRUE)

\* C15: the run of _update for a "versions" message leaves, in the record of
\* its device, the hardware id and the app identifier of the payload and
\* online true, and every other field (raw readings, Fahrenheit values,
\* setpoint, blower, cook id, elapsed seconds) as it was, present or absent.
C15_Set == {"hw_id", "app", "online"}
C15_VersionsStep ==
    updateQ # <<>> /\ updateQ' = Tail(updateQ) /\ Head(updateQ).p.name = "versions" =>
        LET p == Head(updateQ).p
            old == DevOf(data, Head(updateQ).did)
            new == DevOf(data', Head(updateQ).did)
        IN  /\ new.hw_id = p.hw_id
            /\ new.app = p.app
            /\ new.online = PyBool(TRUE)
            /\ DOMAIN new = (DOMAIN old) \cup C15_Set
            /\ \A k \in (DOMAIN old) \ C15_Set : new[k] = old[k]
C15_VersionsFrame == [][C15_VersionsStep]_vars

\* C15 witness: a "versions" message was reduced last, into a record that
\* keeps the telemetry of the "temps" message before it.
C15_Witness ==
    LET dev == DevOf(data, 1)
    IN  /\ reduced.name = "versions"
        /\ updateQ = <<>>
        /\ Get(dev, "hw_id") = PyInt(3)
        /\ Get(dev, "app") = PyStr(1)
        /\ Get(dev, "pit_tenth_c") = PyInt(250)
        /\ Get(dev, "set_temp_f") = PyFloat(7880)
        /\ Get(dev, "blower_pct") = PyFloat(4500)
        /\ Get(dev, "cook_id") = PyInt(7)
        /\ Get(dev, "sec") = PyInt(60)

\* C16: no step removes a key of the state map, and a step that turns a
\* device's online flag from true to false keeps every other field of its
\* record as it was.
C16_KeysKept == \A k \in DOMAIN data : k \in DOMAIN data'
C16_OfflineKeeps ==
    \A d \in DeviceIds :
        Online(data, d) /\ Offline(data', d) =>
            /\ DOMAIN DevOf(data', d) = DOMAIN DevOf(data, d)
            /\ \A f \in (DOMAIN DevOf(data, d)) \ {"online"} :
                  DevOf(data', d)[f] = DevOf(data, d)[f]
C16_NeverDeleted == [][C16_KeysKept /\ C16_OfflineKeeps]_vars

\* C16 witness: a device that went offline is a key of the map, with
\* online false and the telemetry it had.
C16_Witness ==
    /\ StrKey(1) \in DOMAIN data
    /\ Get(data[StrKey(1)], "online") = PyBool(FALSE)
    /\ Get(data[StrKey(1)], "pit_temp") = PyFloat(7700)
    /\ Get(data[StrKey(1)], "meat1_tenth_c") = PyInt(800)
    /\ Get(data[StrKey(1)], "hw_id") = PyInt(3)

\* C17: in every reachable state, for a device id no message was ever
\* received from, is_device_online gives false, the lookup of its record
\* gives the empty record, and the map has no entry for it.
C17_UnknownDevice ==
    \A d \in DeviceIds :
        d \notin DOMAIN lastMsg =>
            /\ is_device_online(data, d) = FALSE
            /\ DevOf(data, d) = EmptyDict
            /\ StrKey(d) \notin DOMAIN data

\* C17 witness: more than 15 s after the start, after three sweeps that had
\* a known device to look at, device 2 has never been heard of.
C17_Witness ==
    /\ now > Sec(OFFLINE_AFTER)
    /\ sweepAt > Sec(OFFLINE_AFTER)
    /\ 1 \in DOMAIN lastMsg
    /\ 2 \notin DOMAIN lastMsg
    /\ ~is_device_online(data, 2)
    /\ is_device_online(data, 1)

\* C18: a sweep that changes the online flag of at least one device leaves
\* the debounce pending: it arms the 1 s timer when none was pending and
\* leaves the pending one as it is otherwise; a sweep that changes no flag
\* leaves flag and timers alone.  A pending timer is due within 1 s, time
\* does not pass its deadline, and its firing is one "state changed"
\* notification.
C18_Sweep == sweepAt # NoTimer /\ sweepAt' = sweepAt + Sec(SWEEP_INTERVAL)
C18_Flipped ==
    \E d \in DeviceIds : Get(DevOf(data', d), "online") # Get(DevOf(data, d), "online")
C18_SweepStep ==
    C18_Sweep =>
        IF C18_Flipped
        THEN /\ pendingRefresh'
             /\ refreshTimers' = IF pendingRefresh THEN refreshTimers ELSE <<now + Sec(1)>>
        ELSE UNCHANGED <<pendingRefresh, refreshTimers>>
C18_Due ==
    pendingRefresh =>
        /\ Len(refreshTimers) = 1
        /\ now <= refreshTimers[1]
        /\ refreshTimers[1] <= now + Sec(1)
C18_Fire == pendingRefresh /\ ~pendingRefresh' => notes' = notes + 1
C18_SweepNotifies == [][C18_SweepStep /\ C18_Fire /\ C18_Due /\ C18_Due']_vars

\* C18 witness: a sweep has just turned device 1 offline, more than 15 s
\* after its last message, and that opened the burst that is now pending.
C18_Witness ==
    /\ Offline(data, 1)
    /\ now - lastMsg[1] > Sec(OFFLINE_AFTER)
    /\ updateQ = <<>>
    /\ pendingRefresh
    /\ burstStart = now
    /\ refreshTimers = <<now + Sec(REFRESH_DELAY)>>

\* C19: when the publish of an accepted request fails (the call ends with
\* nothing put on the bus), no exception leaves the coordinator, the command
\* is not queued again, and the state map and the rate-limit table are as
\* they were.
C19_Failed == Len(pubInflight') < Len(pubInflight) /\ busOut' = busOut
C19_FailStep ==
    C19_Failed =>
        /\ pubErrors' = pubErrors
        /\ Len(pubInflight') = Len(pubInflight) - 1
        /\ UNCHANGED <<data, lastMsg, discovered, lastPublish>>
C19_FailureContained == [][C19_FailStep]_vars

\* C20: every call that passes the rate limit starts exactly one publish, of
\* the payload {"name": "set_temp", "value": v} on the three-segment topic
\* flameboss/<device id in decimal>/recv, where v is the integer nearest to
\* (F - 32) * 5 / 9 * 10 for the F of the call, inside or outside 100..450;
\* and what reaches the bus is one such publish at a time, unaltered.
C20_Topic(d) ==
    << <<"f", "l", "a", "m", "e", "b", "o", "s", "s">>,
       IF d = 1 THEN <<"1">> ELSE <<"2">>,
       <<"r", "e", "c", "v">> >>
C20_Nearest(v, fh) ==
    /\ 2 * (900 * v - (fh - 3200) * 50) <= 900
    /\ 2 * ((fh - 3200) * 50 - 900 * v) <= 900
C20_Accepted ==
    calls' = calls + 1 /\ lastCall'.forwarded =>
        /\ Len(pubInflight') = Len(pubInflight) + 1
        /\ SubSeq(pubInflight', 1, Len(pubInflight)) = pubInflight
        /\ LET c == pubInflight'[Len(pubInflight')]
           IN  /\ c.topic = C20_Topic(lastCall'.did)
               /\ c.name = "set_temp"
               /\ c.key = "value"
               /\ C20_Nearest(c.value, lastCall'.fh)
C20_OnBus ==
    busOut' # busOut =>
        /\ Len(busOut') = Len(busOut) + 1
        /\ SubSeq(busOut', 1, Len(busOut)) = busOut
        /\ \E i \in 1..Len(pubInflight) : busOut'[Len(busOut')] = pubInflight[i]
        /\ Len(pubInflight') = Len(pubInflight) - 1
C20_WireFormat == [][C20_Accepted /\ C20_OnBus]_vars

\* C20 witness: the bus carries the command for 500 F, which is outside
\* 100..450 and not clamped, and the command for 225 F, rounded.
C20_Witness ==
    /\ pubInflight = <<>>
    /\ \E i \in 1..Len(busOut) : busOut[i].value = 2600 /\ busOut[i].topic = C20_Topic(2)
    /\ \E i \in 1..Len(busOut) : busOut[i].value = 1072 /\ busOut[i].topic = C20_Topic(1)

\* C21: when the run of _update reduces a "temps" message that the run
\* before it already reduced for the same device, the record and the map
\* come out as they went in; and for every "temps" message reduced into any
\* record, reducing it once more into the result would change nothing.
C21_TempsStep ==
    updateQ # <<>> /\ updateQ' = Tail(updateQ) /\ Head(updateQ).p.name = "temps" =>
        LET u == Head(updateQ)
        IN  /\ reduced.did = u.did /\ reduced.p = u.p => data' = data
            /\ Reduce(DevOf(data', u.did), u.p) = DevOf(data', u.did)
C21_Idempotent == [][C21_TempsStep]_vars

\* C21 witness: the same "temps" message was reduced twice in a row.
C21_Witness ==
    /\ reduced.again
    /\ reduced.p = TempsMsgA
    /\ updateQ = <<>>
    /\ Get(DevOf(data, 1), "sec") = PyInt(60)
    /\ Get(DevOf(data, 1), "pit_temp") = PyFloat(7700)

\* C22: for every reading v in tenths of a degree Celsius other than
\* -32767, a setpoint request for the Fahrenheit value _tenth_c_to_f gives
\* for v is published with a value within 1 of v.
C22_BackStep ==
    calls' = calls + 1 /\ lastCall'.forwarded =>
        \A v \in TenthsC :
            v # 0 - 32767 /\ _tenth_c_to_f(PyInt(v)) = PyFloat(lastCall'.fh) =>
                LET back == pubInflight'[Len(pubInflight')].value
                IN  back - v <= 1 /\ v - back <= 1
C22_RoundTrip == [][C22_BackStep]_vars

\* C22 witness: the reading -17 (-1.7 C, shown as 28.94 F) was sent back and
\* is on the bus as -17.
C22_Witness ==
    /\ lastCall.forwarded
    /\ lastCall.fh = _tenth_c_to_f(PyInt(0 - 17)).v
    /\ lastCall.fh = 2894
    /\ Len(busOut) = 1
    /\ busOut[1].value = 0 - 17

\* C23: a delivered message joins the pending updates behind those already
\* there; the update that commits is the oldest pending one of its device;
\* and whenever no update of a device is pending, every field of its record
\* other than online (which the sweep also writes) has the value that
\* reducing the device's messages in the order of their delivery gives.
C23_Deliver ==
    cbCount' = cbCount + 1 =>
        Len(updateQ') = Len(updateQ) + 1 /\ SubSeq(updateQ', 1, Len(updateQ)) = updateQ
C23_Commit ==
    Len(updateQ') < Len(updateQ) =>
        \E i \in 1..Len(updateQ) :
            /\ updateQ' = RemoveAt(updateQ, i)
            /\ reduced'.did = updateQ[i].did
            /\ reduced'.p = updateQ[i].p
            /\ \A j \in 1..(i - 1) : updateQ[j].did # updateQ[i].did
C23_Settled ==
    \A d \in DeviceIds :
        (\A i \in 1..Len(updateQ) : updateQ[i].did # d) =>
            LET dev == DevOf(data, d)
            IN  /\ (DOMAIN dev) \ {"online"} = (DOMAIN expect[d]) \ {"online"}
                /\ \A f \in (DOMAIN dev) \ {"online"} : dev[f] = expect[d][f]
C23_InOrder == [][C23_Deliver /\ C23_Commit /\ C23_Settled /\ C23_Settled']_vars

\* C23 witness: of three pending updates, the older one of device 1 has
\* committed while the one of device 2 and the newer one of device 1 wait.
C23_Witness ==
    /\ rxCount = 3
    /\ Len(updateQ) = 2
    /\ updateQ[1].did = 2
    /\ updateQ[2] = [did |-> 1, p |-> TempsMsgB]
    /\ reduced.did = 1
    /\ reduced.p = TempsMsgA
    /\ Get(DevOf(data, 1), "pit_temp") = PyFloat(7700)
    /\ Get(expect[1], "pit_temp") = PyFloat(8600)

\* C24: every step that changes the state map is one whole mutation of the
\* map as it is at that moment: either the commit of the oldest pending
\* update, which adds or replaces the record of its device by the reduction
\* of the record currently stored and leaves every other record as it is,
\* or a sweep, which keeps every key and every field other than online of
\* every record; and the map always agrees with the reduction of each
\* device's messages one after another.
C24_Update ==
    /\ updateQ # <<>>
    /\ updateQ' = Tail(updateQ)
    /\ LET u == Head(updateQ)
       IN  /\ DOMAIN data' = (DOMAIN data) \cup {StrKey(u.did)}
           /\ data'[StrKey(u.did)] = Reduce(DevOf(data, u.did), u.p)
           /\ \A k \in (DOMAIN data) \ {StrKey(u.did)} : data'[k] = data[k]
C24_SweepWrite ==
    /\ sweepAt # NoTimer
    /\ sweepAt' = sweepAt + Sec(5)
    /\ updateQ' = updateQ
    /\ \A k \in DOMAIN data : k \in DOMAIN data'
    /\ \A d \in DeviceIds :
          \A f \in (DOMAIN DevOf(data, d)) \ {"online"} :
              f \in DOMAIN DevOf(data', d) /\ DevOf(data', d)[f] = DevOf(data, d)[f]
C24_Serial ==
    \A d \in DeviceIds :
        (\A i \in 1..Len(updateQ) : updateQ[i].did # d) =>
            \A f \in (DOMAIN expect[d]) \ {"online"} :
                f \in DOMAIN DevOf(data, d) /\ DevOf(data, d)[f] = expect[d][f]
C24_Step == data' # data => C24_Update \/ C24_SweepWrite
C24_NoLostUpdate == [][C24_Step /\ C24_Serial']_vars

\* C24 witness: at the instant of the first sweep, the sweep has turned on
\* the flag of device 1, which sent no telemetry, and the update of a
\* message device 2 sent at that instant has committed; both are in the map.
C24_Witness ==
    /\ now = Sec(SWEEP_INTERVAL)
    /\ sweepAt > now
    /\ updateQ = <<>>
    /\ 1 \in DOMAIN lastMsg
    /\ DevOf(data, 1) = Put(EmptyDict, "online", PyBool(TRUE))
    /\ 2 \in DOMAIN lastMsg
    /\ lastMsg[2] = now
    /\ Get(DevOf(data, 2), "pit_temp") = PyFloat(8600)

\* C25: the contents of a map object or of a record object never change
\* once it is stored: every step that changes the map, or the record of a
\* device, stores a newer object in its place, and every commit of an update
\* stores a new map and a new record even when their contents are the same;
\* so the map object last passed with a "state changed" notification is
\* never newer than the stored one and is never written again.
C25_MapStep == data' # data => objs'.map > objs.map
C25_RecStep ==
    \A d \in DeviceIds : DevOf(data', d) # DevOf(data, d) => objs'.rec[d] > objs.rec[d]
C25_CommitStep ==
    Len(updateQ') < Len(updateQ) =>
        /\ objs'.map > objs.map
        /\ objs'.rec[reduced'.did] > objs.rec[reduced'.did]
C25_Handed == objs.handed <= objs.map /\ objs'.handed \in {objs.handed, objs.map}
C25_SnapshotsImmutable ==
    [][C25_MapStep /\ C25_RecStep /\ C25_CommitStep /\ C25_Handed]_vars

\* C25 witness: a map was passed with a notification, and later a sweep
\* turned the device offline, in a newer map object.
C25_Witness ==
    /\ notes >= 1
    /\ objs.handed >= 1
    /\ objs.map > objs.handed
    /\ Offline(data, 1)
    /\ updateQ = <<>>

\* C26: a setpoint request for a device that has had no request forwarded
\* yet is forwarded, whatever the clock reads at that moment.
C26_FirstCall ==
    calls' = calls + 1 /\ acceptedAt[lastCall'.did] = NoTime =>
        /\ lastCall'.forwarded
        /\ Len(pubInflight') = Len(pubInflight) + 1
C26_FirstForwarded == [][C26_FirstCall]_vars

\* C27: every map object a commit stores is followed by a "state changed"
\* notification that passes that object or a newer one: for each g, once the
\* stored map is the g-th object or a later one, eventually the map passed
\* with a notification is the g-th object or a later one.
C27_Objects == 1..(MaxMsgsClient + 2)
C27_EveryCommitNotified ==
    \A g \in C27_Objects : (objs.map >= g) ~> (objs.handed >= g)

\* C27 witness: a commit that landed after a timer had fired and cleared the
\* flag has been notified by a second timer.
C27_Witness ==
    /\ notes = 2
    /\ objs.handed = objs.map
    /\ objs.map >= 2
    /\ ~pendingRefresh
    /\ refreshTimers = <<>>

\* C28: the test of the rate limit and the recording of the time of an
\* accepted request are one step, taken before the publish is awaited: a
\* request that is forwarded leaves its time in the table in the step that
\* starts its publish; a request made less than 2 s after a forwarded one for
\* the same device starts no publish, whether that publish is still
\* suspended, has gone out or has failed; and a failing publish leaves the
\* table as it is.
C28_Call ==
    calls' = calls + 1 =>
        LET d == lastCall'.did
        IN  /\ acceptedAt[d] # NoTime /\ now - acceptedAt[d] < Sec(2) =>
                  /\ ~lastCall'.forwarded
                  /\ UNCHANGED <<pubInflight, lastPublish>>
            /\ lastCall'.forwarded =>
                  /\ d \in DOMAIN lastPublish'
                  /\ lastPublish'[d] = now
                  /\ Len(pubInflight') = Len(pubInflight) + 1
C28_Fail == pubErrors' = pubErrors + 1 => lastPublish' = lastPublish
C28_Recorded ==
    \A d \in DeviceIds :
        acceptedAt[d] # NoTime => d \in DOMAIN lastPublish /\ lastPublish[d] = acceptedAt[d]
C28_AtomicAccept == [][C28_Call /\ C28_Fail /\ C28_Recorded']_vars

\* C28 witness: with the publish of the first request for device 1 still
\* suspended, a second request for it 500 ms later has been dropped.
C28_Witness ==
    /\ calls = 2
    /\ lastCall.did = 1
    /\ ~lastCall.forwarded
    /\ acceptedAt[1] # NoTime
    /\ 2 * (lastCall.at - acceptedAt[1]) = Sec(1)
    /\ busOut = <<>>
    /\ pubErrors = 0
    /\ Len(pubInflight) = 1
    /\ pubInflight[1].did = 1

\* C29: the devices are isolated from one another.  The callback for a message
\* of device A leaves the last-seen time, the discovered status and the "new
\* device" count of every other device B as they are, and the map untouched;
\* the update task for a message of A leaves the record of every other B as
\* it is; and a setpoint request for A, forwarded or dropped, leaves the
\* rate-limit entry of every other B as it is, so that B's next request is
\* limited exactly as it was before.
C29_SameEntry(f, g, k) == (k \in DOMAIN f <=> k \in DOMAIN g) /\ (k \in DOMAIN f => f[k] = g[k])
C29_Last(table, d) == IF d \in DOMAIN table THEN table[d] ELSE 0
C29_Callback ==
    cbCount' = cbCount + 1 =>
        LET A == updateQ'[Len(updateQ')].did
        IN  /\ data' = data
            /\ \A B \in DeviceIds \ {A} :
                  /\ C29_SameEntry(lastMsg, lastMsg', B)
                  /\ (B \in discovered' <=> B \in discovered)
                  /\ discNotes'[B] = discNotes[B]
C29_Update ==
    (updateQ # <<>> /\ updateQ' = Tail(updateQ)) =>
        LET A == Head(updateQ).did
        IN  /\ UNCHANGED <<lastMsg, discovered, discNotes>>
            /\ \A B \in DeviceIds \ {A} : C29_SameEntry(data, data', StrKey(B))
C29_Request ==
    calls' = calls + 1 =>
        LET A == lastCall'.did
        IN  \A B \in DeviceIds \ {A} :
                /\ C29_SameEntry(lastPublish, lastPublish', B)
                /\ \A t \in now..(now + Sec(SETPOINT_MIN_INTERVAL)) :
                      RateLimited(t, C29_Last(lastPublish', B))
                          <=> RateLimited(t, C29_Last(lastPublish, B))
C29_Isolation == [][C29_Callback /\ C29_Update /\ C29_Request]_vars

\* C29 witness: both devices have a record, the last update ran for device 1,
\* and a request for device 2 was forwarded 500 ms after one for device 1.
C29_Witness ==
    /\ StrKey(1) \in DOMAIN data
    /\ StrKey(2) \in DOMAIN data
    /\ reduced.did = 1
    /\ lastMsg[1] > lastMsg[2]
    /\ calls = 2
    /\ lastCall.did = 2
    /\ lastCall.forwarded
    /\ acceptedAt[1] # NoTime
    /\ 2 * (lastCall.at - acceptedAt[1]) = Sec(1)

\* C30: a message on the command topic <namespace>/<id>/recv is no device
\* traffic.  Receiving the echo of a published command never invokes the
\* callback, so it leaves the last-seen times, the discovered devices, the
\* "new device" counts, the pending updates and the map as they are; and a
\* device is discovered and has a last-seen time only if the callback ran.
C30_EchoReceived ==
    \E i \in TaskIds, k \in 1..Len(busOut) : Receive(i, EchoOf(busOut[k]), FALSE, MaxMsgsClient)
C30_EchoStep ==
    C30_EchoReceived =>
        UNCHANGED <<cbCount, lastMsg, discovered, discNotes, updateQ, data, expect>>
C30_OnlyTelemetry ==
    /\ Cardinality(discovered) <= cbCount
    /\ \A d \in DeviceIds : d \in DOMAIN lastMsg => d \in discovered
C30_EchoIsNoTraffic == [][C30_EchoStep /\ C30_OnlyTelemetry']_vars

\* C30 witness: controller 1 reported and then fell silent; a command for it
\* went out after its report and came back, and the sweep has marked it
\* offline all the same.
C30_Witness ==
    /\ rxCount = 2
    /\ cbCount = 1
    /\ Len(busOut) = 1
    /\ discovered = {1}
    /\ acceptedAt[1] > lastMsg[1]
    /\ now - lastMsg[1] > Sec(OFFLINE_AFTER)
    /\ Get(data[StrKey(1)], "online") = PyBool(FALSE)

============================================================================
